---- MODULE Spec2Model ----
(***************************************************************************)
(* Batch job orchestration engine of examples/fastapi-ai-batch-processor:  *)
(* the record store (Job, Request, Response), the remote batch provider,   *)
(* the submission controller (submit_batch_job), the poll and reconcile    *)
(* controller (check_batch_status) and the result ingestor                 *)
(* (_process_output_file, _process_error_file).                            *)
(*                                                                         *)
(* Store rows are kept in sequences; the id of a row is its index.  A      *)
(* timestamp or message column is modelled by whether it is set.  The id   *)
(* of a remote file or remote job is its index at the provider.            *)
(***************************************************************************)
EXTENDS Integers, Sequences, FiniteSets, TLC

VARIABLES jobs, requests, responses, files, batches, polls, calls, last, cycle

vars == <<jobs, requests, responses, files, batches, polls, calls, last, cycle>>
store == <<jobs, requests, responses>>
remote == <<files, batches>>

(* ------------------------------ bounds -------------------------------- *)
MaxJobs == 2
MaxRequests == 2
MaxAdd == 2
MaxFiles == 2
MaxLines == 2
MaxPolls == 2
NumCustomIds == 2
NumCalls == 2
NumBodies == 2
\* the page of a listing in the runs that are repeated for ever: it stands
\* for PageLimit, with MaxJobs standing for more Jobs than one page holds
LivePage == 1

NoId == 0
\* process_pending_jobs and check_processing_jobs: get_multi(..., limit=100)
PageLimit == 100

CustomIds == 1..NumCustomIds
JobIds == 1..MaxJobs
CallIds == 1..NumCalls

(* ------------------------------ the store ------------------------------ *)
JobStatus == {"PENDING", "PROCESSING", "COMPLETED", "FAILED", "CANCELLED"}
RequestStatus == {"PENDING", "PROCESSING", "COMPLETED", "FAILED"}
TerminalStatus == {"COMPLETED", "FAILED", "CANCELLED"}

\* a Job row that starts with a count
BatchJobCounted ==
    [status |-> "PENDING",
     openai_batch_id |-> NoId,
     openai_input_file_id |-> NoId,
     openai_output_file_id |-> NoId,
     openai_error_file_id |-> NoId,
     total_requests |-> 1,
     completed_requests |-> 0,
     failed_requests |-> 0,
     submitted_at |-> FALSE,
     completed_at |-> FALSE,
     error_message |-> FALSE]

\* BatchJobCRUD.create: the columns take their defaults
BatchJob ==
    [status |-> "PENDING",
     openai_batch_id |-> NoId,
     openai_input_file_id |-> NoId,
     openai_output_file_id |-> NoId,
     openai_error_file_id |-> NoId,
     total_requests |-> 0,
     completed_requests |-> 0,
     failed_requests |-> 0,
     submitted_at |-> FALSE,
     completed_at |-> FALSE,
     error_message |-> FALSE]

BatchRequest(job_id, custom_id) ==
    [job_id |-> job_id,
     custom_id |-> custom_id,
     status |-> "PENDING",
     method |-> "POST",
     url |-> "/v1/chat/completions",
     body |-> 1,
     error_message |-> FALSE]

\* `row` tells the rows of one Request apart: the rows have ids of their own
BatchResponse(job_id, request_id, custom_id, payload) ==
    [job_id |-> job_id,
     request_id |-> request_id,
     custom_id |-> custom_id,
     payload |-> payload,
     row |-> 1]

\* BatchJobCRUD.get_by_id: the row, if there is one
JobExists(js, job_id) == job_id \in DOMAIN js

\* BatchRequestCRUD.get_by_job_id: the ids of the Requests of a Job, in row order
RECURSIVE RequestsByJobFrom(_, _, _)
RequestsByJobFrom(reqs, job_id, i) ==
    IF i > Len(reqs) THEN <<>>
    ELSE (IF reqs[i].job_id = job_id THEN <<i>> ELSE <<>>)
         \o RequestsByJobFrom(reqs, job_id, i + 1)

RequestsByJob(reqs, job_id) == RequestsByJobFrom(reqs, job_id, 1)

Range(s) == {s[i] : i \in DOMAIN s}

\* BatchResponseCRUD.get_by_job_id
ResponsesByJob(resps, job_id) == {r \in resps : r.job_id = job_id}

\* BatchResponseCRUD.get_by_request_id, as a set
ResponsesByRequest(resps, request_id) == {r \in resps : r.request_id = request_id}

(* --------------------------- last operation ---------------------------- *)
NoFile == <<>>

NoOp ==
    [op |-> "init", job |-> NoId, ret |-> FALSE, fail |-> "none",
     status |-> "none", out |-> NoFile, err |-> NoFile]

Op(op, job_id, ret, fail) ==
    [op |-> op, job |-> job_id, ret |-> ret, fail |-> fail,
     status |-> "none", out |-> NoFile, err |-> NoFile]

\* a call in flight: where it is, the Job it is for and what it holds in
\* memory: the Requests read and the remote ids (submit), the Job row read
\* and the answer of the provider (check), the rows inserted and not yet
\* committed and the count read (add requests)
IdleCall == [pc |-> "idle", job |-> NoId, reqs |-> <<>>, file |-> NoId,
             batch |-> NoId, ret |-> FALSE, row |-> BatchJob,
             answer |-> "none", out |-> NoFile, err |-> NoFile,
             added |-> <<>>, count |-> 0]

\* a run of the driver: the phase it is in, the Jobs it fetched and has not
\* reached yet, those it called the service for, those it left out, whether
\* the rows it holds were expired by a rollback, the two counts it returns
\* and whether it is a dry run
IdleCycle ==
    [pc |-> "idle", fetched |-> <<>>, attempted |-> {}, skipped |-> {},
     expired |-> FALSE, done |-> 0, errors |-> 0, raised |-> FALSE,
     dry |-> FALSE]

Init ==
    /\ jobs = <<>>
    /\ requests = <<>>
    /\ responses = {}
    /\ files = <<>>
    /\ batches = <<>>
    /\ polls = 0
    /\ calls = [c \in CallIds |-> IdleCall]
    /\ last = NoOp
    /\ cycle = IdleCycle

(* ----------------------------- create job ------------------------------ *)
\* create_batch_job: BatchJobCRUD.create and commit
CreateBatchJob ==
    /\ Len(jobs) < MaxJobs
    /\ jobs' = Append(jobs, BatchJob)
    /\ last' = Op("create_job", Len(jobs) + 1, TRUE, "none")
    /\ UNCHANGED <<requests, responses, files, batches, polls, calls, cycle>>

(* ---------------------------- add requests ----------------------------- *)
\* a guard that lets every Job take Requests
AcceptsAlways(job) == TRUE

\* the guard of create_batch_requests: only a PENDING Job takes Requests
AcceptsRequests(job) == job.status \in {"PENDING"}

\* BatchRequestCRUD.create_multi: one row per item, in order
RECURSIVE CreateMulti(_, _, _)
CreateMulti(reqs, job_id, custom_ids) ==
    IF custom_ids = <<>> THEN reqs
    ELSE CreateMulti(Append(reqs, BatchRequest(job_id, Head(custom_ids))),
                     job_id, Tail(custom_ids))

\* the sequences of at most n items over S, the empty one excluded
RECURSIVE SeqsUpTo(_, _)
SeqsUpTo(S, n) ==
    IF n = 0 THEN {<<>>}
    ELSE LET shorter == SeqsUpTo(S, n - 1)
         IN  shorter \cup {Append(s, x) : s \in shorter, x \in S}

NonEmptySeqs(S, n) == SeqsUpTo(S, n) \ {<<>>}

CreateBatchRequests(job_id, custom_ids) ==
    /\ Len(requests) + Len(custom_ids) <= MaxRequests
    /\ IF ~JobExists(jobs, job_id) \/ ~AcceptsRequests(jobs[job_id])
       THEN /\ last' = Op("add_requests", job_id, FALSE, "none")
            /\ UNCHANGED <<jobs, requests>>
       ELSE LET created == CreateMulti(requests, job_id, custom_ids)
            IN  /\ requests' = created
                /\ jobs' = [jobs EXCEPT ![job_id].total_requests =
                                Len(RequestsByJob(created, job_id))]
                /\ last' = Op("add_requests", job_id, TRUE, "none")
    /\ UNCHANGED <<responses, files, batches, polls, calls, cycle>>

\* update_batch_job: BatchJobCRUD.update sets the status the caller sends on
\* the Job, whatever its status is, and the endpoint commits
UpdateBatchJob(job_id, status) ==
    /\ IF ~JobExists(jobs, job_id)
       THEN /\ last' = Op("update_job", job_id, FALSE, "none")
            /\ UNCHANGED jobs
       ELSE /\ jobs' = [jobs EXCEPT ![job_id].status = status]
            /\ last' = Op("update_job", job_id, TRUE, "none")
    /\ UNCHANGED <<requests, responses, files, batches, polls, calls, cycle>>

(* ------------------------------- submit -------------------------------- *)
\* a submit without the status guard
AnyStatus(job) == TRUE

\* submit_batch_job, the status guard: only a PENDING Job is submitted
IsPending(job) == job.status = "PENDING"

\* a submit without the empty-Job guard
NeverEmpty(request_ids) == FALSE

\* submit_batch_job: `if not requests`
NoRequests(request_ids) == request_ids = <<>>

\* a builder that writes the records last to first
ManifestReversed(reqs, request_ids) ==
    [k \in 1..Len(request_ids) |->
        [custom_id |-> reqs[request_ids[Len(request_ids) + 1 - k]].custom_id,
         method |-> reqs[request_ids[Len(request_ids) + 1 - k]].method,
         url |-> reqs[request_ids[Len(request_ids) + 1 - k]].url,
         body |-> reqs[request_ids[Len(request_ids) + 1 - k]].body]]

\* _create_input_file: one manifest record per Request, in the order given
Manifest(reqs, request_ids) ==
    [k \in 1..Len(request_ids) |->
        [custom_id |-> reqs[request_ids[k]].custom_id,
         method |-> reqs[request_ids[k]].method,
         url |-> reqs[request_ids[k]].url,
         body |-> reqs[request_ids[k]].body]]

\* a builder that leaves out the record it cannot write and uploads the rest
SkipsUnwritable(fs, fail) == IF fail = "upload" THEN NoId ELSE Len(fs) + 1

\* _create_input_file: the id of the uploaded file, None when json.dumps
\* raised on a record (nothing is uploaded then) or when the upload raised
CreateInputFile(fs, fail) ==
    IF fail \in {"serialize", "upload"} THEN NoId ELSE Len(fs) + 1

\* a submit that goes on after a failed upload
FileIdUnchecked(file_id) == FALSE

\* submit_batch_job: `if not input_file_id`
MissingInputFile(file_id) == file_id = NoId

\* client.files.create: the provider stores the manifest
Upload(fs, file_id, manifest) == IF file_id = NoId THEN fs ELSE Append(fs, manifest)

\* client.batches.create: the provider creates a job for the input file; the
\* remote job is in progress and has no artifact
CreateBatch(bs, file_id, job_id) ==
    Append(bs, [input_file_id |-> file_id, job_id |-> job_id,
                status |-> "in_progress", out |-> NoFile, err |-> NoFile])

\* submit_batch_job: the linkage and status written on the Job
MarkSubmitted(job, batch_id, file_id) ==
    [job EXCEPT !.openai_batch_id = batch_id,
                !.openai_input_file_id = file_id,
                !.status = "PROCESSING",
                !.submitted_at = TRUE]

\* a submit that marks only the first Request it read
MarkFirstProcessing(reqs, request_ids) ==
    [i \in DOMAIN reqs |->
        IF request_ids # <<>> /\ i = Head(request_ids)
        THEN [reqs[i] EXCEPT !.status = "PROCESSING"]
        ELSE reqs[i]]

\* submit_batch_job: every Request that was read becomes PROCESSING
MarkProcessing(reqs, request_ids) ==
    [i \in DOMAIN reqs |->
        IF i \in Range(request_ids)
        THEN [reqs[i] EXCEPT !.status = "PROCESSING"]
        ELSE reqs[i]]

SubmitFailures == {"none", "serialize", "upload", "create", "commit"}

\* submit_batch_job as one transaction: the store and the provider after the
\* call, its return value and the failure that took place
SubmitOutcome(job_id, fail) ==
    LET same(ret, rejected, fs, bs) ==
            [jobs |-> jobs, requests |-> requests, files |-> fs, batches |-> bs,
             ret |-> ret, rejected |-> rejected, rolled_back |-> FALSE]
        \* the except clause: `await db.rollback()`
        undone(fs, bs) ==
            [jobs |-> jobs, requests |-> requests, files |-> fs, batches |-> bs,
             ret |-> FALSE, rejected |-> FALSE, rolled_back |-> TRUE]
        request_ids == RequestsByJob(requests, job_id)
        file_id == CreateInputFile(files, fail)
        uploaded == Upload(files, file_id, Manifest(requests, request_ids))
    IN  IF ~JobExists(jobs, job_id) THEN same(FALSE, TRUE, files, batches)
        ELSE IF ~IsPending(jobs[job_id]) THEN same(FALSE, TRUE, files, batches)
        ELSE IF NoRequests(request_ids) THEN same(FALSE, TRUE, files, batches)
        ELSE IF MissingInputFile(file_id) THEN same(FALSE, FALSE, uploaded, batches)
        ELSE IF fail = "create" THEN undone(uploaded, batches)
        ELSE LET bs == CreateBatch(batches, file_id, job_id)
             IN  IF fail = "commit" THEN undone(uploaded, bs)
                 ELSE [jobs |-> [jobs EXCEPT ![job_id] =
                                    MarkSubmitted(jobs[job_id], Len(bs), file_id)],
                       requests |-> MarkProcessing(requests, request_ids),
                       files |-> uploaded, batches |-> bs,
                       ret |-> TRUE, rejected |-> FALSE, rolled_back |-> FALSE]

\* a call the guards reject meets no failure: it is taken once, with none
SubmitBatchJob(job_id, fail) ==
    LET o == SubmitOutcome(job_id, fail)
    IN  /\ Len(o.files) <= MaxFiles
        /\ (o.rejected => fail = "none")
        /\ jobs' = o.jobs
        /\ requests' = o.requests
        /\ files' = o.files
        /\ batches' = o.batches
        /\ last' = Op("submit", job_id, o.ret, fail)
        /\ UNCHANGED <<responses, polls, calls, cycle>>

(* ------------------------------ ingestion ------------------------------ *)
\* one line of an artifact: a record with a custom_id, or text json.loads rejects
Line(custom_id) == [ok |-> TRUE, custom_id |-> custom_id]
BadLine == [ok |-> FALSE, custom_id |-> NoId]
Lines == {Line(c) : c \in CustomIds} \cup {BadLine}
Artifacts == {NoFile} \cup NonEmptySeqs(Lines, MaxLines)

\* BatchRequestCRUD.get_by_custom_id: the query has no job filter
RequestsByCustomId(reqs, custom_id) ==
    {i \in DOMAIN reqs : reqs[i].custom_id = custom_id}

\* the status an ingested Request takes: COMPLETED from the output file,
\* FAILED with an error_message from the error file
Ingested(request, payload) ==
    IF payload = "body"
    THEN [request EXCEPT !.status = "COMPLETED"]
    ELSE [request EXCEPT !.status = "FAILED", !.error_message = TRUE]

\* BatchResponseCRUD.create flushes the row: the unique index on request_id
\* rejects a second Response of a Request
UniqueViolation(resps, request_id) == ResponsesByRequest(resps, request_id) # {}

\* a loop that ends at a record no Request matches
StopAtOrphan(lines) == <<>>

\* `if not request: ... continue`: the loop goes on with the lines that follow
AfterOrphan(lines) == Tail(lines)

\* The loop of _process_output_file and _process_error_file over the lines of
\* an artifact, on the session s = [requests, responses, broken].  Any
\* exception leaves the loop: json.loads on a bad line, MultipleResultsFound
\* from scalar_one_or_none, IntegrityError from the flush.  After a failed
\* flush the session's transaction is rolled back (broken) and every later
\* statement on it raises until rollback() is called.
RECURSIVE ProcessLines(_, _, _, _)
ProcessLines(s, job_id, lines, payload) ==
    IF lines = <<>> THEN s
    ELSE IF ~Head(lines).ok THEN s
    ELSE IF s.broken THEN s
    ELSE LET custom_id == Head(lines).custom_id
             found == RequestsByCustomId(s.requests, custom_id)
         IN  IF found = {}
             THEN ProcessLines(s, job_id, AfterOrphan(lines), payload)
             ELSE IF Cardinality(found) > 1 THEN s
             ELSE LET request_id == CHOOSE i \in found : TRUE
                  IN  IF UniqueViolation(s.responses, request_id)
                      THEN [s EXCEPT !.broken = TRUE]
                      ELSE ProcessLines(
                             [s EXCEPT
                                !.responses = @ \cup
                                    {[BatchResponse(job_id, request_id, custom_id,
                                                    payload)
                                        EXCEPT !.row = 1 + Cardinality(
                                            ResponsesByRequest(s.responses,
                                                               request_id))]},
                                !.requests[request_id] = Ingested(@, payload)],
                             job_id, Tail(lines), payload)

\* _process_output_file: a failed download is logged and nothing is ingested
ProcessOutputFile(s, job_id, lines, fail) ==
    IF fail = "download_out" THEN s ELSE ProcessLines(s, job_id, lines, "body")

\* _process_error_file
ProcessErrorFile(s, job_id, lines, fail) ==
    IF fail = "download_err" THEN s ELSE ProcessLines(s, job_id, lines, "error")

(* ------------------------------ reconcile ------------------------------ *)
\* the id the provider gives an artifact of a remote job, None when absent
ArtifactId(batch_id, lines) == IF lines = NoFile THEN NoId ELSE batch_id

\* a count of the success rows this call inserted
IngestedNow(resps, job_id) ==
    Cardinality({r \in ResponsesByJob(resps, job_id) \ responses :
                    r.payload = "body"})

\* _handle_completed_batch: the counters are the Job's Responses with a
\* success payload and those with an error payload
CompletedCount(resps, job_id) ==
    Cardinality({r \in ResponsesByJob(resps, job_id) : r.payload = "body"})

FailedCount(resps, job_id) ==
    Cardinality({r \in ResponsesByJob(resps, job_id) : r.payload = "error"})

Session == [requests |-> requests, responses |-> responses, broken |-> FALSE]

Unchanged ==
    [jobs |-> jobs, requests |-> requests, responses |-> responses,
     rolled_back |-> FALSE]

\* the store after `await db.rollback()` in the except clause of a handler
RolledBack == [Unchanged EXCEPT !.rolled_back = TRUE]

\* _handle_completed_batch: the committed store, or the store as it was when
\* the handler's except clause rolled back
HandleCompletedBatch(job_id, out, err, fail) ==
    LET job == jobs[job_id]
        s1 == IF out # NoFile THEN ProcessOutputFile(Session, job_id, out, fail)
              ELSE Session
        s2 == IF err # NoFile THEN ProcessErrorFile(s1, job_id, err, fail) ELSE s1
    IN  IF s2.broken \/ fail = "commit" THEN RolledBack
        ELSE [jobs |-> [jobs EXCEPT ![job_id] =
                  [job EXCEPT
                     !.status = "COMPLETED",
                     !.completed_at = TRUE,
                     !.openai_output_file_id = ArtifactId(job.openai_batch_id, out),
                     !.openai_error_file_id = ArtifactId(job.openai_batch_id, err),
                     !.completed_requests = CompletedCount(s2.responses, job_id),
                     !.failed_requests = FailedCount(s2.responses, job_id)]],
              requests |-> s2.requests,
              responses |-> s2.responses,
              rolled_back |-> FALSE]

\* _handle_failed_batch
HandleFailedBatch(job_id, err, fail) ==
    LET job == jobs[job_id]
        s1 == IF err # NoFile THEN ProcessErrorFile(Session, job_id, err, fail)
              ELSE Session
    IN  IF s1.broken \/ fail = "commit" THEN RolledBack
        ELSE [jobs |-> [jobs EXCEPT ![job_id] =
                  [job EXCEPT
                     !.status = "FAILED",
                     !.completed_at = TRUE,
                     !.error_message = TRUE,
                     !.openai_error_file_id =
                         IF err # NoFile THEN ArtifactId(job.openai_batch_id, err)
                         ELSE @]],
              requests |-> s1.requests,
              responses |-> s1.responses,
              rolled_back |-> FALSE]

\* a cancelled branch that writes nothing
IgnoreCancelledBatch(job_id, fail) == Unchanged

\* check_batch_status, the cancelled branch
HandleCancelledBatch(job_id, fail) ==
    IF fail = "commit" THEN Unchanged
    ELSE [jobs |-> [jobs EXCEPT ![job_id].status = "CANCELLED"],
          requests |-> requests,
          responses |-> responses,
          rolled_back |-> FALSE]

\* a guard that passes every Job that exists
AnyJob(js, job_id) == JobExists(js, job_id)

\* check_batch_status: the guard before the remote call
HasBatch(js, job_id) == JobExists(js, job_id) /\ js[job_id].openai_batch_id # NoId

RemoteStatus == {"in_progress", "completed", "failed", "cancelled"}
CheckFailures == {"none", "retrieve", "download_out", "download_err", "commit"}

\* what the provider can answer and where the call can fail: a download can
\* only fail for an artifact that is fetched, a commit only where one is made;
\* an artifact nobody reads has one representative content, and the two
\* artifacts of one answer hold at most MaxLines lines together
Unread(lines) == lines \in {NoFile, <<Line(1)>>}

CheckInput(status, out, err, fail) ==
    /\ Len(out) + Len(err) <= MaxLines
    /\ fail = "retrieve" => status = "in_progress" /\ out = NoFile /\ err = NoFile
    /\ fail = "download_out" => status = "completed" /\ out = <<Line(1)>>
    /\ fail = "download_err" => status \in {"completed", "failed"} /\ err = <<Line(1)>>
    /\ fail = "commit" => status # "in_progress" /\ Unread(out) /\ Unread(err)
    /\ status # "completed" => Unread(out)
    /\ status \in {"in_progress", "cancelled"} => Unread(err)

\* a dispatch that takes every status but failed and cancelled for completed
NotFailedOrCancelled(status) == status \notin {"failed", "cancelled"}

\* check_batch_status: `if batch.status == "completed"`
RemoteCompleted(status) == status = "completed"

\* check_batch_status: the store after the call
CheckOutcome(job_id, status, out, err, fail) ==
    IF fail = "retrieve" THEN Unchanged
    ELSE IF RemoteCompleted(status) THEN HandleCompletedBatch(job_id, out, err, fail)
    ELSE IF status = "failed" THEN HandleFailedBatch(job_id, err, fail)
    ELSE IF status = "cancelled" THEN HandleCancelledBatch(job_id, fail)
    ELSE Unchanged

\* check_batch_status returns False when the job has no remote job, when the
\* status query raised and when the commit of the cancelled branch raised; the
\* two handlers catch their own exceptions
CheckReturn(status, fail) ==
    ~(fail = "retrieve" \/ (status = "cancelled" /\ fail = "commit"))

\* the answers of the provider and the failures a call is checked against
CheckInputs ==
    {i \in [status : RemoteStatus, out : Artifacts, err : Artifacts,
            fail : CheckFailures] : CheckInput(i.status, i.out, i.err, i.fail)}

CheckBatchStatus(job_id, i) ==
    /\ polls < MaxPolls
    /\ polls' = polls + 1
    /\ IF ~HasBatch(jobs, job_id)
       THEN /\ i = [status |-> "in_progress", out |-> NoFile, err |-> NoFile,
                    fail |-> "none"]
            /\ last' = Op("check", job_id, FALSE, "none")
            /\ UNCHANGED <<jobs, requests, responses>>
       ELSE LET o == CheckOutcome(job_id, i.status, i.out, i.err, i.fail)
            IN  /\ jobs' = o.jobs
                /\ requests' = o.requests
                /\ responses' = o.responses
                /\ last' = [op |-> "check", job |-> job_id,
                            ret |-> CheckReturn(i.status, i.fail), fail |-> i.fail,
                            status |-> i.status, out |-> i.out, err |-> i.err]
    /\ UNCHANGED <<files, batches, calls, cycle>>

(* ------------------- submit, one suspension point a step --------------- *)
\* submit_batch_job up to its first remote call: the Job and its Requests are
\* read and the two guards are applied
SubmitLoad(c, job_id) ==
    /\ calls[c].pc = "idle"
    /\ LET request_ids == RequestsByJob(requests, job_id)
       IN  IF \/ ~JobExists(jobs, job_id)
              \/ ~IsPending(jobs[job_id])
              \/ NoRequests(request_ids)
           THEN calls' = [calls EXCEPT ![c] =
                    [IdleCall EXCEPT !.pc = "done", !.job = job_id]]
           ELSE calls' = [calls EXCEPT ![c] =
                    [IdleCall EXCEPT !.pc = "loaded", !.job = job_id,
                                     !.reqs = request_ids]]
    /\ UNCHANGED <<jobs, requests, responses, files, batches, polls, last, cycle>>

\* _create_input_file: the manifest of the Requests read is uploaded
SubmitUpload(c) ==
    /\ calls[c].pc = "loaded"
    /\ Len(files) < MaxFiles
    /\ LET file_id == CreateInputFile(files, "none")
       IN  /\ files' = Upload(files, file_id, Manifest(requests, calls[c].reqs))
           /\ calls' = [calls EXCEPT ![c].pc = "uploaded", ![c].file = file_id]
    /\ UNCHANGED <<jobs, requests, responses, batches, polls, last, cycle>>

\* a call that asks for the remote job while its upload is still to come
UploadPending(call) == call.pc = "loaded"

\* submit_batch_job reaches client.batches.create once _create_input_file has
\* returned the id of the file
UploadReturned(call) == call.pc = "uploaded"

\* client.batches.create
SubmitCreate(c) ==
    /\ UploadReturned(calls[c])
    /\ batches' = CreateBatch(batches, calls[c].file, calls[c].job)
    /\ calls' = [calls EXCEPT ![c].pc = "created", ![c].batch = Len(batches) + 1]
    /\ UNCHANGED <<jobs, requests, responses, files, polls, last, cycle>>

\* db.commit: the UPDATEs of the Job row and of the Request rows that were
\* read are written whatever another session committed in between
SubmitCommit(c) ==
    /\ calls[c].pc = "created"
    /\ jobs' = [jobs EXCEPT ![calls[c].job] =
                   MarkSubmitted(@, calls[c].batch, calls[c].file)]
    /\ requests' = MarkProcessing(requests, calls[c].reqs)
    /\ calls' = [calls EXCEPT ![c].pc = "done", ![c].ret = TRUE]
    /\ UNCHANGED <<responses, files, batches, polls, last, cycle>>

(* -------------------- check, one suspension point a step --------------- *)
\* check_batch_status up to its remote call: the Job row is read
CheckLoad(c, job_id) ==
    /\ calls[c].pc = "idle"
    \* the calls are alike: they start in the order of their ids, and they
    \* are calls for one Job
    /\ \A d \in CallIds : d < c => calls[d].pc # "idle"
    /\ \A d \in CallIds : calls[d].job \in {NoId, job_id}
    /\ IF ~HasBatch(jobs, job_id)
       THEN calls' = [calls EXCEPT ![c] =
                [IdleCall EXCEPT !.pc = "done", !.job = job_id]]
       ELSE calls' = [calls EXCEPT ![c] =
                [IdleCall EXCEPT !.pc = "loaded", !.job = job_id,
                                 !.row = jobs[job_id]]]
    /\ UNCHANGED <<jobs, requests, responses, files, batches, polls, last, cycle>>

\* the answers of one remote job agree once it has ended
SameAnswer(c, i) ==
    \A d \in CallIds \ {c} :
        (/\ calls[d].job = calls[c].job
         /\ calls[d].answer \in {"completed", "failed", "cancelled"})
        => /\ i.status = calls[d].answer
           /\ i.out = calls[d].out
           /\ i.err = calls[d].err

\* client.batches.retrieve, and client.files.content for the artifacts: the
\* call holds the answer in memory
CheckRetrieve(c, i) ==
    /\ calls[c].pc = "loaded"
    /\ i.fail = "none"
    /\ SameAnswer(c, i)
    /\ calls' = [calls EXCEPT ![c].pc = "retrieved", ![c].answer = i.status,
                              ![c].out = i.out, ![c].err = i.err]
    /\ UNCHANGED <<jobs, requests, responses, files, batches, polls, last, cycle>>

\* the UPDATE of a flush holds the columns whose value differs from the one
\* the session read; the other columns keep what is committed
Flushed(current, loaded, assigned) ==
    [f \in DOMAIN current |->
        IF assigned[f] # loaded[f] THEN assigned[f] ELSE current[f]]

\* the statements of the handler up to its commit or rollback.  The first
\* query autoflushes the UPDATE of the Job row, whose row lock makes a second
\* session wait at its own first statement until this one has ended, so the
\* statements of two calls on one Job do not interleave; each statement reads
\* what is committed.
CheckCommit(c) ==
    /\ calls[c].pc = "retrieved"
    /\ LET job_id == calls[c].job
           o == CheckOutcome(job_id, calls[c].answer, calls[c].out, calls[c].err,
                             "none")
       IN  /\ jobs' = [o.jobs EXCEPT ![job_id] =
                          Flushed(jobs[job_id], calls[c].row, o.jobs[job_id])]
           /\ requests' = o.requests
           /\ responses' = o.responses
    /\ calls' = [calls EXCEPT ![c].pc = "done", ![c].ret = TRUE]
    /\ UNCHANGED <<files, batches, polls, last, cycle>>

(* --------------- add requests, one suspension point a step ------------- *)
\* create_batch_requests up to create_multi: the Job is read and the guards
\* are applied
AddLoad(c, job_id) ==
    /\ calls[c].pc = "idle"
    /\ IF ~JobExists(jobs, job_id) \/ ~AcceptsRequests(jobs[job_id])
       THEN calls' = [calls EXCEPT ![c] =
                [IdleCall EXCEPT !.pc = "done", !.job = job_id]]
       ELSE calls' = [calls EXCEPT ![c] =
                [IdleCall EXCEPT !.pc = "loaded", !.job = job_id]]
    /\ UNCHANGED <<jobs, requests, responses, files, batches, polls, last, cycle>>

\* the rows that the calls in flight have inserted and not committed
InFlight == UNION {{<<c, k>> : k \in DOMAIN calls[c].added} : c \in CallIds}

\* BatchRequestCRUD.create_multi: the rows are flushed to the transaction of
\* the call; no other session reads them before the commit
AddInsert(c, custom_ids) ==
    /\ calls[c].pc = "loaded"
    /\ Len(requests) + Cardinality(InFlight) + Len(custom_ids) <= MaxRequests
    /\ calls' = [calls EXCEPT ![c].pc = "inserted", ![c].added = custom_ids]
    /\ UNCHANGED <<jobs, requests, responses, files, batches, polls, last, cycle>>

\* get_by_job_id: the query counts the committed Requests of the Job and the
\* rows of its own transaction
AddCount(c) ==
    /\ calls[c].pc = "inserted"
    /\ calls' = [calls EXCEPT
                    ![c].pc = "counted",
                    ![c].count = Len(RequestsByJob(requests, calls[c].job))
                                 + Len(calls[c].added)]
    /\ UNCHANGED <<jobs, requests, responses, files, batches, polls, last, cycle>>

\* db.commit: the UPDATE of total_requests and the inserted rows are committed
AddCommit(c) ==
    /\ calls[c].pc = "counted"
    /\ requests' = CreateMulti(requests, calls[c].job, calls[c].added)
    /\ jobs' = [jobs EXCEPT ![calls[c].job].total_requests = calls[c].count]
    /\ calls' = [calls EXCEPT ![c].pc = "done", ![c].ret = TRUE]
    /\ UNCHANGED <<responses, files, batches, polls, last, cycle>>

(* ------------------------------ the driver ----------------------------- *)
\* BatchJobCRUD.get_multi with a status: the Jobs in that status, the newest
\* first (order_by created_at desc)
RECURSIVE GetMultiFrom(_, _, _)
GetMultiFrom(js, status, i) ==
    IF i = 0 THEN <<>>
    ELSE (IF js[i].status = status THEN <<i>> ELSE <<>>)
         \o GetMultiFrom(js, status, i - 1)

\* .limit(limit): the first rows of the listing
Page(listed, limit) ==
    IF Len(listed) <= limit THEN listed ELSE SubSeq(listed, 1, limit)

GetMultiPage(js, status, limit) == Page(GetMultiFrom(js, status, Len(js)), limit)

GetMulti(js, status) == GetMultiPage(js, status, PageLimit)

ListFailures == {"none", "list"}

\* a phase that goes on with dry_run set
PhaseRuns(dry_run) == FALSE

\* BatchProcessor._process_pending_jobs and _check_processing_jobs:
\* `if self.dry_run: return`
PhaseSkipped(dry_run) == dry_run

\* BatchProcessor.run with dry_run: both phases return before any call
RunDry ==
    /\ cycle.pc = "idle"
    /\ last' = Op("dry_run", NoId, TRUE, "none")
    /\ IF PhaseSkipped(TRUE)
       THEN UNCHANGED cycle
       ELSE cycle' = [IdleCycle EXCEPT !.pc = "pending", !.dry = TRUE,
                                       !.fetched = GetMulti(jobs, "PENDING")]
    /\ UNCHANGED <<jobs, requests, responses, files, batches, polls, calls>>

\* process_pending_jobs up to its loop: the PENDING Jobs are fetched; when
\* the query raises, the except clause counts one error and the function
\* returns
ListPending(fail) ==
    /\ cycle.pc = "idle"
    /\ cycle' = [IdleCycle EXCEPT
                    !.pc = "pending",
                    !.fetched = IF fail = "list" THEN <<>>
                                ELSE GetMulti(jobs, "PENDING"),
                    !.errors = IF fail = "list" THEN 1 ELSE 0]
    /\ last' = Op("list_pending", NoId, fail = "none", fail)
    /\ UNCHANGED <<jobs, requests, responses, files, batches, polls, calls>>

\* the loop of a phase ends in its except clause: reading `job.id` of a row
\* that a rollback expired needs a query the event loop cannot make there
\* (MissingGreenlet), so the Jobs still to come get no call
AbortLoop ==
    [cycle EXCEPT !.fetched = <<>>,
                  !.skipped = Range(cycle.fetched),
                  !.errors = @ + 1]

\* one turn of the loop: the Job is called for and counted
Turn(job_id, ret, rolled_back) ==
    [cycle EXCEPT !.fetched = Tail(@),
                  !.attempted = @ \cup {job_id},
                  !.expired = rolled_back,
                  !.done = @ + (IF ret THEN 1 ELSE 0),
                  !.errors = @ + (IF ret THEN 0 ELSE 1)]

\* process_pending_jobs, one turn of its loop: submit_batch_job(db, job.id)
SubmitNext(fail) ==
    /\ cycle.pc = "pending"
    /\ cycle.fetched # <<>>
    /\ IF cycle.expired
       THEN /\ fail = "none"
            /\ cycle' = AbortLoop
            /\ last' = Op("abort", Head(cycle.fetched), FALSE, "none")
            /\ UNCHANGED <<jobs, requests, files, batches>>
       ELSE LET job_id == Head(cycle.fetched)
                o == SubmitOutcome(job_id, fail)
            IN  /\ Len(o.files) <= MaxFiles
                /\ (o.rejected => fail = "none")
                /\ jobs' = o.jobs
                /\ requests' = o.requests
                /\ files' = o.files
                /\ batches' = o.batches
                /\ cycle' = Turn(job_id, o.ret, o.rolled_back)
                /\ last' = Op("submit", job_id, o.ret, fail)
    /\ UNCHANGED <<responses, polls, calls>>

\* check_processing_jobs up to its loop: the PROCESSING Jobs are fetched, and
\* the rows the query returns are fresh
ListProcessing(fail) ==
    /\ cycle.pc = "pending"
    /\ cycle.fetched = <<>>
    /\ cycle' = [IdleCycle EXCEPT
                    !.pc = "processing",
                    !.fetched = IF fail = "list" THEN <<>>
                                ELSE GetMulti(jobs, "PROCESSING"),
                    !.errors = IF fail = "list" THEN 1 ELSE 0]
    /\ last' = Op("list_processing", NoId, fail = "none", fail)
    /\ UNCHANGED <<jobs, requests, responses, files, batches, polls, calls>>

\* check_processing_jobs, one turn of its loop: check_batch_status(db, job.id)
CheckNext(i) ==
    /\ cycle.pc = "processing"
    /\ cycle.fetched # <<>>
    /\ polls < MaxPolls
    /\ polls' = polls + 1
    /\ ~(i.status = "cancelled" /\ i.fail = "commit")
    /\ IF cycle.expired
       THEN /\ i = [status |-> "in_progress", out |-> NoFile, err |-> NoFile,
                    fail |-> "none"]
            /\ cycle' = AbortLoop
            /\ last' = Op("abort", Head(cycle.fetched), FALSE, "none")
            /\ UNCHANGED <<jobs, requests, responses>>
       ELSE LET job_id == Head(cycle.fetched)
                o == CheckOutcome(job_id, i.status, i.out, i.err, i.fail)
            IN  /\ HasBatch(jobs, job_id)
                /\ jobs' = o.jobs
                /\ requests' = o.requests
                /\ responses' = o.responses
                /\ cycle' = Turn(job_id, CheckReturn(i.status, i.fail), o.rolled_back)
                /\ last' = [op |-> "check", job |-> job_id,
                            ret |-> CheckReturn(i.status, i.fail), fail |-> i.fail,
                            status |-> i.status, out |-> i.out, err |-> i.err]
    /\ UNCHANGED <<files, batches, calls>>

\* BatchProcessor.run returns
RunEnd ==
    /\ cycle.pc = "processing"
    /\ cycle.fetched = <<>>
    /\ cycle' = IdleCycle
    /\ last' = Op("run_end", NoId, ~cycle.raised, "none")
    /\ UNCHANGED <<jobs, requests, responses, files, batches, polls, calls>>

(* --------------------- runs repeated for ever ------------------------- *)
\* the provider ends a remote job: its status and artifacts are final
RemoteEnds(b, i) ==
    /\ b \in DOMAIN batches
    /\ batches[b].status = "in_progress"
    /\ i.status # "in_progress"
    /\ i.fail = "none"
    /\ batches' = [batches EXCEPT ![b].status = i.status,
                                  ![b].out = i.out,
                                  ![b].err = i.err]
    /\ UNCHANGED <<jobs, requests, responses, files, polls, calls, last, cycle>>

\* process_pending_jobs up to its loop, the query succeeding
LivePending ==
    /\ cycle.pc = "idle"
    /\ cycle' = [IdleCycle EXCEPT
                    !.pc = "pending",
                    !.fetched = GetMultiPage(jobs, "PENDING", LivePage)]
    /\ last' = Op("list_pending", NoId, TRUE, "none")
    /\ UNCHANGED <<jobs, requests, responses, files, batches, polls, calls>>

\* check_processing_jobs up to its loop, the query succeeding
LiveProcessing ==
    /\ cycle.pc = "pending"
    /\ cycle.fetched = <<>>
    /\ cycle' = [IdleCycle EXCEPT
                    !.pc = "processing",
                    !.fetched = GetMultiPage(jobs, "PROCESSING", LivePage)]
    /\ last' = Op("list_processing", NoId, TRUE, "none")
    /\ UNCHANGED <<jobs, requests, responses, files, batches, polls, calls>>

\* check_processing_jobs, one turn of its loop: the provider answers with the
\* state of the remote job and no call fails
LiveCheck ==
    /\ cycle.pc = "processing"
    /\ cycle.fetched # <<>>
    /\ IF cycle.expired
       THEN /\ cycle' = AbortLoop
            /\ last' = Op("abort", Head(cycle.fetched), FALSE, "none")
            /\ UNCHANGED <<jobs, requests, responses>>
       ELSE LET job_id == Head(cycle.fetched)
                b == batches[jobs[job_id].openai_batch_id]
                o == CheckOutcome(job_id, b.status, b.out, b.err, "none")
            IN  /\ jobs' = o.jobs
                /\ requests' = o.requests
                /\ responses' = o.responses
                /\ cycle' = Turn(job_id, TRUE, o.rolled_back)
                /\ last' = [op |-> "check", job |-> job_id, ret |-> TRUE,
                            fail |-> "none", status |-> b.status,
                            out |-> b.out, err |-> b.err]
    /\ UNCHANGED <<files, batches, polls, calls>>

Next ==
    \/ CreateBatchJob
    \/ \E j \in JobIds, ids \in NonEmptySeqs(CustomIds, MaxAdd) :
          CreateBatchRequests(j, ids)
    \/ \E j \in JobIds : SubmitBatchJob(j, "none")
    \/ \E j \in JobIds, i \in {x \in CheckInputs : x.fail = "none"} :
          CheckBatchStatus(j, i)

Spec == Init /\ [][Next]_vars

\* create, add and submit calls alone, with the failures of a submit
NextSubmit ==
    \/ CreateBatchJob
    \/ \E j \in JobIds, ids \in NonEmptySeqs(CustomIds, MaxAdd) :
          CreateBatchRequests(j, ids)
    \/ \E j \in JobIds, fail \in SubmitFailures : SubmitBatchJob(j, fail)

SpecSubmit == Init /\ [][NextSubmit]_vars

\* submit calls that interleave at their remote calls and commits
NextRace ==
    \/ CreateBatchJob
    \/ \E j \in JobIds, ids \in NonEmptySeqs(CustomIds, MaxAdd) :
          CreateBatchRequests(j, ids)
    \/ \E c \in CallIds, j \in JobIds : SubmitLoad(c, j)
    \/ \E c \in CallIds : SubmitUpload(c)
    \/ \E c \in CallIds : SubmitCreate(c)
    \/ \E c \in CallIds : SubmitCommit(c)

SpecRace == Init /\ [][NextRace]_vars

\* every call with every failure of its remote calls and of its commit
NextFaults ==
    \/ CreateBatchJob
    \/ \E j \in JobIds, ids \in NonEmptySeqs(CustomIds, MaxAdd) :
          CreateBatchRequests(j, ids)
    \/ \E j \in JobIds, fail \in SubmitFailures : SubmitBatchJob(j, fail)
    \/ \E j \in JobIds, i \in CheckInputs : CheckBatchStatus(j, i)

SpecFaults == Init /\ [][NextFaults]_vars

\* the API calls and the runs of the driver, with the failures of each call
NextCycle ==
    \/ CreateBatchJob
    \/ \E j \in JobIds, ids \in NonEmptySeqs(CustomIds, MaxAdd) :
          CreateBatchRequests(j, ids)
    \/ RunDry
    \/ \E fail \in ListFailures : ListPending(fail)
    \/ \E fail \in SubmitFailures : SubmitNext(fail)
    \/ \E fail \in ListFailures : ListProcessing(fail)
    \/ \E i \in CheckInputs : CheckNext(i)
    \/ RunEnd

SpecCycle == Init /\ [][NextCycle]_vars

\* check calls that interleave at their remote calls
NextCheckRace ==
    \/ CreateBatchJob
    \/ \E j \in JobIds, ids \in NonEmptySeqs(CustomIds, MaxAdd) :
          CreateBatchRequests(j, ids)
    \/ \E j \in JobIds : SubmitBatchJob(j, "none")
    \/ \E c \in CallIds, j \in JobIds : CheckLoad(c, j)
    \/ \E c \in CallIds, i \in CheckInputs : CheckRetrieve(c, i)
    \/ \E c \in CallIds : CheckCommit(c)

SpecCheckRace == Init /\ [][NextCheckRace]_vars

\* add-requests calls that interleave at their statements, beside submits
NextAddRace ==
    \/ CreateBatchJob
    \/ \E j \in JobIds : SubmitBatchJob(j, "none")
    \/ \E c \in CallIds, j \in JobIds : AddLoad(c, j)
    \/ \E c \in CallIds, ids \in NonEmptySeqs(CustomIds, MaxAdd) :
          AddInsert(c, ids)
    \/ \E c \in CallIds : AddCount(c)
    \/ \E c \in CallIds : AddCommit(c)

SpecAddRace == Init /\ [][NextAddRace]_vars

\* the API calls, the job-update call included, and submits
NextUpdate ==
    \/ CreateBatchJob
    \/ \E j \in JobIds, ids \in NonEmptySeqs(CustomIds, MaxAdd) :
          CreateBatchRequests(j, ids)
    \/ \E j \in JobIds, status \in JobStatus : UpdateBatchJob(j, status)
    \/ \E j \in JobIds : SubmitBatchJob(j, "none")

SpecUpdate == Init /\ [][NextUpdate]_vars

\* the API calls, the provider, and runs of the driver in which the provider
\* and the store succeed
TerminalAnswers ==
    {i \in CheckInputs : i.fail = "none" /\ i.status # "in_progress"}

NextLive ==
    \/ CreateBatchJob
    \/ \E j \in JobIds, ids \in NonEmptySeqs(CustomIds, MaxAdd) :
          CreateBatchRequests(j, ids)
    \/ \E b \in 1..MaxFiles, i \in TerminalAnswers : RemoteEnds(b, i)
    \/ LivePending
    \/ SubmitNext("none")
    \/ LiveProcessing
    \/ LiveCheck
    \/ RunEnd

\* the driver is run again and again, and a run that started goes on
SpecLive ==
    /\ Init
    /\ [][NextLive]_vars
    /\ WF_vars(LivePending)
    /\ WF_vars(SubmitNext("none"))
    /\ WF_vars(LiveProcessing)
    /\ WF_vars(LiveCheck)
    /\ WF_vars(RunEnd)

\* the manifest builder on the Requests the API can have stored: any method,
\* url and body on any row
Methods == {"POST", "GET"}
Urls == {"/v1/chat/completions", "/v1/embeddings"}
Bodies == 1..NumBodies

RequestRows ==
    {[BatchRequest(j, c) EXCEPT !.method = m, !.url = u, !.body = b] :
        j \in JobIds, c \in CustomIds, m \in Methods, u \in Urls, b \in Bodies}

InitManifest ==
    /\ requests \in NonEmptySeqs(RequestRows, MaxRequests)
    /\ jobs = [j \in JobIds |->
                 [BatchJob EXCEPT !.total_requests = Len(RequestsByJob(requests, j))]]
    /\ responses = {}
    /\ files = <<>>
    /\ batches = <<>>
    /\ polls = 0
    /\ calls = [c \in CallIds |-> IdleCall]
    /\ last = NoOp
    /\ cycle = IdleCycle

NextManifest == \E j \in JobIds, fail \in SubmitFailures : SubmitBatchJob(j, fail)

SpecManifest == InitManifest /\ [][NextManifest]_vars

(* ------------------------------- claims -------------------------------- *)
RemoteJobsOf(job_id) == {b \in DOMAIN batches : batches[b].job_id = job_id}

RequestSetOf(reqs, job_id) == {i \in DOMAIN reqs : reqs[i].job_id = job_id}

\* the records of an artifact all parse and each names exactly one Request,
\* a Request of the Job
Answers(job_id, lines) ==
    \A k \in DOMAIN lines :
        /\ lines[k].ok
        /\ \E i \in RequestSetOf(requests, job_id) :
              RequestsByCustomId(requests, lines[k].custom_id) = {i}

\* the Requests the records of an artifact name
Answered(lines) ==
    UNION {RequestsByCustomId(requests, lines[k].custom_id) : k \in DOMAIN lines}

\* no custom_id appears twice in the artifacts of one answer
NoRepeat(out, err) ==
    LET all == out \o err
    IN  \A k, m \in DOMAIN all : k # m => all[k].custom_id # all[m].custom_id

\* a step that is a check_batch_status call reaching the completed handler
\* with no failure injected
CompletedCheck ==
    /\ last'.op = "check"
    /\ polls' = polls + 1
    /\ HasBatch(jobs, last'.job)
    /\ last'.status = "completed"
    /\ last'.fail = "none"

\* C1: for every Job, completed_requests + failed_requests <= total_requests
\* in every reachable committed store state.
C1_CountersWithinTotal ==
    \A j \in DOMAIN jobs :
        jobs[j].completed_requests + jobs[j].failed_requests <= jobs[j].total_requests

\* C2: a Job whose status is terminal has completed_requests equal to the
\* number of its Responses with a success payload and failed_requests equal to
\* the number of its Responses with an error payload.
C2_TerminalCountersMatchResponses ==
    \A j \in DOMAIN jobs :
        jobs[j].status \in TerminalStatus =>
            /\ jobs[j].completed_requests = CompletedCount(responses, j)
            /\ jobs[j].failed_requests = FailedCount(responses, j)

\* C3: every Request has at most one Response, and after a reconcile of a
\* completed remote job every Request named by a record of the output or the
\* error artifact has exactly one Response, also when its custom_id appears
\* twice in the artifacts or was ingested by an earlier reconcile.
C3_ExactlyOneResponsePerCustomId ==
    [][/\ \A i \in DOMAIN requests' :
             Cardinality(ResponsesByRequest(responses', i)) <= 1
       /\ (/\ CompletedCheck
           /\ Answers(last'.job, last'.out)
           /\ Answers(last'.job, last'.err))
          => \A i \in Answered(last'.out) \cup Answered(last'.err) :
                Cardinality(ResponsesByRequest(responses', i)) = 1]_vars

\* C4: a reconcile whose artifacts name a Request that already has a Response
\* skips that record, gives every other Request named in them its Response and
\* final status, and commits the Job as COMPLETED.
C4_ReRunTolerated ==
    [][(/\ CompletedCheck
        /\ Answers(last'.job, last'.out)
        /\ Answers(last'.job, last'.err)
        /\ NoRepeat(last'.out, last'.err)
        /\ \E i \in Answered(last'.out) \cup Answered(last'.err) :
              ResponsesByRequest(responses, i) # {})
       => /\ \A i \in Answered(last'.out) \cup Answered(last'.err) :
                /\ ResponsesByRequest(responses', i) # {}
                /\ requests'[i].status \in {"COMPLETED", "FAILED"}
          /\ jobs'[last'.job].status = "COMPLETED"]_vars

\* C5: submit_batch_job on a Job that is not PENDING returns failure, makes
\* no upload and creates no remote job, and leaves the store unchanged.
C5_SubmitNonPendingRejected ==
    [][(/\ last'.op = "submit"
        /\ JobExists(jobs, last'.job)
        /\ jobs[last'.job].status # "PENDING")
       => /\ last'.ret = FALSE
          /\ UNCHANGED <<jobs, requests, responses, files, batches>>]_vars

C5_Witness ==
    /\ last.op = "submit"
    /\ last.ret = FALSE
    /\ JobExists(jobs, last.job)
    /\ jobs[last.job].status \in TerminalStatus
    /\ RequestSetOf(requests, last.job) # {}

\* C6: submit_batch_job on a PENDING Job with no Requests returns failure,
\* makes no remote call and leaves the Job PENDING with no linkage.
C6_SubmitEmptyRejected ==
    [][(/\ last'.op = "submit"
        /\ JobExists(jobs, last'.job)
        /\ jobs[last'.job].status = "PENDING"
        /\ RequestSetOf(requests, last'.job) = {})
       => /\ last'.ret = FALSE
          /\ UNCHANGED <<files, batches, requests, responses>>
          /\ jobs' = jobs
          /\ jobs'[last'.job].status = "PENDING"
          /\ jobs'[last'.job].openai_batch_id = NoId
          /\ jobs'[last'.job].openai_input_file_id = NoId]_vars

C6_Witness ==
    /\ last.op = "submit"
    /\ last.ret = FALSE
    /\ JobExists(jobs, last.job)
    /\ jobs[last.job].status = "PENDING"
    /\ RequestSetOf(requests, last.job) = {}

\* C7: under submit calls alone, failing or not, a Job is either PENDING with
\* all its Requests PENDING and no external job id, or PROCESSING with all its
\* Requests PROCESSING and external job id, input artifact id and submitted_at
\* set.
C7_SubmitFlipAtomic ==
    \A j \in DOMAIN jobs :
        \/ /\ jobs[j].status = "PENDING"
           /\ \A i \in RequestSetOf(requests, j) : requests[i].status = "PENDING"
           /\ jobs[j].openai_batch_id = NoId
        \/ /\ jobs[j].status = "PROCESSING"
           /\ \A i \in RequestSetOf(requests, j) : requests[i].status = "PROCESSING"
           /\ jobs[j].openai_batch_id # NoId
           /\ jobs[j].openai_input_file_id # NoId
           /\ jobs[j].submitted_at

C7_Witness ==
    \E j \in DOMAIN jobs :
        /\ jobs[j].status = "PROCESSING"
        /\ Cardinality(RequestSetOf(requests, j)) >= 2
        /\ Cardinality(RemoteJobsOf(j)) >= 2

\* C8: a submit whose manifest upload fails returns failure, creates no remote
\* file and no remote job and leaves the store as it was: the Job PENDING, its
\* Requests PENDING, no linkage.
C8_UploadFailureNoMutation ==
    [][(last'.op = "submit" /\ last'.fail = "upload")
       => /\ last'.ret = FALSE
          /\ UNCHANGED <<jobs, requests, responses, files, batches>>
          /\ jobs'[last'.job].status = "PENDING"
          /\ jobs'[last'.job].openai_batch_id = NoId
          /\ \A i \in RequestSetOf(requests', last'.job) :
                requests'[i].status = "PENDING"]_vars

C8_Witness ==
    /\ last.op = "submit"
    /\ last.fail = "upload"
    /\ Cardinality(RequestSetOf(requests, last.job)) >= 1
    /\ jobs[last.job].status = "PENDING"

\* C9: once a remote job exists for a Job (also when the commit that follows
\* its creation failed), a later submit_batch_job on that Job is rejected and
\* creates no second remote job.
C9_NoSecondRemoteJob ==
    [][(last'.op = "submit" /\ RemoteJobsOf(last'.job) # {})
       => /\ last'.ret = FALSE
          /\ batches' = batches]_vars

\* C10: when submit_batch_job invocations on one Job interleave, at most one
\* remote job is created for the Job and the Job's external job id is the id
\* of that remote job.
C10_OneRemoteJobUnderRace ==
    \A j \in DOMAIN jobs :
        /\ Cardinality(RemoteJobsOf(j)) <= 1
        /\ jobs[j].openai_batch_id # NoId => RemoteJobsOf(j) = {jobs[j].openai_batch_id}

\* a step that is a check_batch_status call on a Job that has a remote job
CheckStep ==
    /\ last'.op = "check"
    /\ polls' = polls + 1
    /\ HasBatch(jobs, last'.job)

\* C11: check_batch_status on a Job that is already COMPLETED, FAILED or
\* CANCELLED changes nothing: the Job row, its Requests and its Responses are
\* as they were, whatever status the remote reports.
C11_TerminalCheckNoOp ==
    [][(CheckStep /\ jobs[last'.job].status \in TerminalStatus)
       => UNCHANGED <<jobs, requests, responses>>]_vars

\* the Requests of a Job that carry a custom_id
OwnRequests(reqs, job_id, custom_id) ==
    {i \in RequestSetOf(reqs, job_id) : reqs[i].custom_id = custom_id}

\* the records of an artifact all parse and each names exactly one Request
\* of the Job
OwnRecords(job_id, lines) ==
    \A k \in DOMAIN lines :
        /\ lines[k].ok
        /\ Cardinality(OwnRequests(requests, job_id, lines[k].custom_id)) = 1

\* the Requests of a Job that the records of an artifact name
Named(job_id, lines) ==
    UNION {OwnRequests(requests, job_id, lines[k].custom_id) : k \in DOMAIN lines}

\* C12: when the remote reports completed for a PROCESSING Job, with success
\* records for a set S of the Job's custom_ids and error records for a
\* disjoint set E of them, the Job becomes COMPLETED with completed_at set,
\* completed_requests = |S| and failed_requests = |E|, every Request in S is
\* COMPLETED and every Request in E is FAILED with an error_message.
C12_CompletedIngestsBoth ==
    [][(/\ CompletedCheck
        /\ jobs[last'.job].status = "PROCESSING"
        /\ OwnRecords(last'.job, last'.out)
        /\ OwnRecords(last'.job, last'.err)
        /\ NoRepeat(last'.out, last'.err))
       => /\ jobs'[last'.job].status = "COMPLETED"
          /\ jobs'[last'.job].completed_at
          /\ jobs'[last'.job].completed_requests = Len(last'.out)
          /\ jobs'[last'.job].failed_requests = Len(last'.err)
          /\ \A i \in Named(last'.job, last'.out) :
                requests'[i].status = "COMPLETED"
          /\ \A i \in Named(last'.job, last'.err) :
                /\ requests'[i].status = "FAILED"
                /\ requests'[i].error_message]_vars

\* a remote that answers every record of a manifest with a success record
Echo(manifest) == [k \in DOMAIN manifest |-> Line(manifest[k].custom_id)]

\* the custom_ids of the Requests of a Job differ
DistinctCustomIds(job_id) ==
    \A i, k \in RequestSetOf(requests, job_id) :
        i # k => requests[i].custom_id # requests[k].custom_id

\* C13: for a submitted Job with N >= 1 Requests, a reconcile against a remote
\* that echoes every line of the Job's manifest as a success record leaves
\* exactly N Responses of the Job, all N Requests COMPLETED,
\* completed_requests = N and failed_requests = 0.
C13_RoundTrip ==
    [][(/\ CompletedCheck
        /\ jobs[last'.job].status = "PROCESSING"
        /\ DistinctCustomIds(last'.job)
        /\ last'.out = Echo(files[jobs[last'.job].openai_input_file_id])
        /\ last'.err = NoFile)
       => LET N == Cardinality(RequestSetOf(requests, last'.job))
          IN  /\ Cardinality(ResponsesByJob(responses', last'.job)) = N
              /\ \A i \in RequestSetOf(requests', last'.job) :
                    requests'[i].status = "COMPLETED"
              /\ jobs'[last'.job].completed_requests = N
              /\ jobs'[last'.job].failed_requests = 0]_vars

\* C14: when the remote reports a status other than completed, failed or
\* cancelled, check_batch_status leaves the store unchanged: the Job keeps its
\* status and counters, no Response is created, no Request changes.
C14_InProgressNoMutation ==
    [][(/\ CheckStep
        /\ last'.status \notin {"completed", "failed", "cancelled"}
        /\ last'.fail = "none")
       => /\ UNCHANGED <<jobs, requests, responses>>
          /\ last'.ret = TRUE]_vars

C14_Witness ==
    /\ last.op = "check"
    /\ last.status = "in_progress"
    /\ last.ret = TRUE
    /\ HasBatch(jobs, last.job)
    /\ jobs[last.job].status = "PROCESSING"
    /\ RequestSetOf(requests, last.job) # {}
    /\ last.out # NoFile

\* C15: when the remote reports cancelled, check_batch_status sets the Job's
\* status to CANCELLED and changes nothing else: no Response is created, no
\* Request and no counter changes, also when the remote job has artifacts.
C15_CancelledNoIngestion ==
    [][(CheckStep /\ last'.status = "cancelled" /\ last'.fail = "none")
       => /\ jobs' = [jobs EXCEPT ![last'.job].status = "CANCELLED"]
          /\ UNCHANGED <<requests, responses>>]_vars

C15_Witness ==
    /\ last.op = "check"
    /\ last.status = "cancelled"
    /\ HasBatch(jobs, last.job)
    /\ jobs[last.job].status = "CANCELLED"
    /\ last.out # NoFile
    /\ last.err # NoFile
    /\ \E i \in RequestSetOf(requests, last.job) :
          requests[i].status = "PROCESSING" /\ requests[i].custom_id = 1

\* C16: when the remote reports failed, check_batch_status sets the Job to
\* FAILED with completed_at and an error_message, and every record of the
\* error artifact that names a Request of the Job leaves an error Response of
\* that Request and the Request FAILED; every FAILED Job has an error_message.
C16_FailedIngestsErrors ==
    [][/\ (CheckStep /\ last'.status = "failed" /\ last'.fail = "none")
          => /\ jobs'[last'.job].status = "FAILED"
             /\ jobs'[last'.job].completed_at
             /\ jobs'[last'.job].error_message
             /\ \A k \in DOMAIN last'.err :
                   \A i \in OwnRequests(requests, last'.job, last'.err[k].custom_id) :
                      last'.err[k].ok
                      => /\ \E r \in ResponsesByRequest(responses', i) :
                               r.payload = "error"
                         /\ requests'[i].status = "FAILED"
       /\ \A j \in DOMAIN jobs' :
             jobs'[j].status = "FAILED" => jobs'[j].error_message]_vars

\* C17: a reconcile of Job J leaves every Request of another Job as it was,
\* with the Responses it had, so a record whose custom_id is carried only by
\* a Request of another Job creates no Response; and the job of every
\* Response is the job of its Request.
C17_CorrelationWithinJob ==
    [][CheckStep
       => /\ \A i \in DOMAIN requests :
                requests[i].job_id # last'.job
                => /\ requests'[i] = requests[i]
                   /\ ResponsesByRequest(responses', i) =
                         ResponsesByRequest(responses, i)
          /\ \A r \in responses' : requests'[r.request_id].job_id = r.job_id]_vars

\* an artifact without the records whose custom_id no Request carries
RECURSIVE WithoutOrphans(_)
WithoutOrphans(lines) ==
    IF lines = <<>> THEN <<>>
    ELSE (IF Head(lines).ok /\ RequestsByCustomId(requests, Head(lines).custom_id) = {}
          THEN <<>> ELSE <<Head(lines)>>)
         \o WithoutOrphans(Tail(lines))

\* the records of an artifact whose custom_id no Request carries
Orphans(lines) ==
    {lines[k].custom_id : k \in {m \in DOMAIN lines :
        lines[m].ok /\ RequestsByCustomId(requests, lines[m].custom_id) = {}}}

\* the columns of a Job that ingestion decides
Counted(job) ==
    [status |-> job.status,
     completed_requests |-> job.completed_requests,
     failed_requests |-> job.failed_requests]

\* C18: a record whose custom_id matches no Request is skipped: no Request is
\* added, no Response carries its custom_id, and the Requests, the Responses
\* and every Job's status and counters are what the same artifacts without
\* that record give, so the records after it are ingested.
C18_OrphanSkipped ==
    [][(/\ CheckStep
        /\ last'.fail = "none"
        /\ Orphans(last'.out) \cup Orphans(last'.err) # {})
       => LET o == CheckOutcome(last'.job, last'.status,
                                WithoutOrphans(last'.out),
                                WithoutOrphans(last'.err), "none")
          IN  /\ Len(requests') = Len(requests)
              /\ \A r \in responses' \ responses :
                    r.custom_id \notin Orphans(last'.out) \cup Orphans(last'.err)
              /\ requests' = o.requests
              /\ responses' = o.responses
              /\ \A j \in DOMAIN jobs : Counted(jobs'[j]) = Counted(o.jobs[j])]_vars

\* an orphan record came first and the record after it was ingested
C18_Witness ==
    /\ last.op = "check"
    /\ last.status = "completed"
    /\ Len(last.out) = 2
    /\ last.out[1].ok
    /\ RequestsByCustomId(requests, last.out[1].custom_id) = {}
    /\ \E i \in RequestSetOf(requests, last.job) :
          /\ requests[i].custom_id = last.out[2].custom_id
          /\ requests[i].status = "COMPLETED"
          /\ ResponsesByRequest(responses, i) # {}
    /\ jobs[last.job].status = "COMPLETED"
    /\ jobs[last.job].completed_requests = 1

\* the artifacts a check_batch_status call reads for a remote status
ArtifactsRead(status, out, err) ==
    IF status = "completed" THEN {out, err}
    ELSE IF status = "failed" THEN {err}
    ELSE {}

\* C19: an unparseable line of an output or error artifact is skipped: every
\* well-formed record after it in the artifact that names one Request, a
\* Request of the Job without a Response, leaves that Request with a Response
\* and its final status.
C19_MalformedLineSkipped ==
    [][(CheckStep /\ last'.fail = "none")
       => \A lines \in ArtifactsRead(last'.status, last'.out, last'.err) :
             \A k, m \in DOMAIN lines :
                (/\ k < m
                 /\ ~lines[k].ok
                 /\ lines[m].ok)
                => \A i \in RequestSetOf(requests, last'.job) :
                      (/\ RequestsByCustomId(requests, lines[m].custom_id) = {i}
                       /\ ResponsesByRequest(responses, i) = {})
                      => /\ ResponsesByRequest(responses', i) # {}
                         /\ requests'[i].status \in {"COMPLETED", "FAILED"}]_vars

\* C20: a submit_batch_job or check_batch_status call in which a remote call
\* fails (upload, create-job, get-status, artifact download) leaves the Job
\* in the status it had, PENDING or PROCESSING.
C20_RemoteFailureKeepsStatus ==
    [][(/\ \/ /\ last'.op = "submit"
              /\ last'.fail \in {"upload", "create"}
              /\ JobExists(jobs, last'.job)
           \/ /\ CheckStep
              /\ last'.fail \in {"retrieve", "download_out", "download_err"}
        /\ jobs[last'.job].status \in {"PENDING", "PROCESSING"})
       => jobs'[last'.job].status = jobs[last'.job].status]_vars

\* C21: within one run of the driver every Job that process_pending_jobs or
\* check_processing_jobs fetched gets its submit or reconcile call, whatever
\* happened to the Jobs handled before it: no fetched Job is left out.
C21_SiblingsAttempted == cycle.skipped = {}

\* C22: when the query that lists the PENDING or the PROCESSING Jobs raises,
\* the exception leaves the run (BatchProcessor.run raises) and is not
\* turned into an error count.
C22_ListFaultPropagates ==
    [][(last'.op \in {"list_pending", "list_processing"} /\ last'.fail = "list")
       => /\ cycle'.raised
          /\ cycle'.errors = 0]_vars

\* C23: create_batch_requests on a Job that is not PENDING is rejected and
\* changes nothing, and no call changes the Request set or total_requests of
\* a Job that is not PENDING.
C23_AddToNonPendingRejected ==
    [][/\ (/\ last'.op = "add_requests"
           /\ JobExists(jobs, last'.job)
           /\ jobs[last'.job].status # "PENDING")
          => /\ last'.ret = FALSE
             /\ UNCHANGED <<jobs, requests, responses>>
       /\ \A j \in DOMAIN jobs :
             jobs[j].status # "PENDING"
             => /\ RequestSetOf(requests', j) = RequestSetOf(requests, j)
                /\ jobs'[j].total_requests = jobs[j].total_requests]_vars

C23_Witness ==
    /\ last.op = "add_requests"
    /\ last.ret = FALSE
    /\ JobExists(jobs, last.job)
    /\ jobs[last.job].status = "PROCESSING"
    /\ Cardinality(RequestSetOf(requests, last.job)) = 1
    /\ jobs[last.job].total_requests = 1

\* the custom_ids of the manifest uploaded for a Job
ManifestIds(job_id) ==
    IF jobs[job_id].openai_input_file_id = NoId THEN {}
    ELSE {m.custom_id : m \in Range(files[jobs[job_id].openai_input_file_id])}

\* C24: when create_batch_requests and submit_batch_job calls on one Job
\* interleave, no committed state has the Job PROCESSING with a Request that
\* is still PENDING or that is not in the uploaded manifest.
C24_NoPendingRequestUnderProcessingJob ==
    \A j \in DOMAIN jobs :
        jobs[j].status = "PROCESSING"
        => \A i \in RequestSetOf(requests, j) :
              /\ requests[i].status # "PENDING"
              /\ requests[i].custom_id \in ManifestIds(j)

\* C25: a Job that was just created is PENDING, has no Request, has its three
\* counters at 0 and has no external job id and no artifact id.
C25_NewJobIsEmpty ==
    [][last'.op = "create_job"
       => /\ Len(jobs') = Len(jobs) + 1
          /\ last'.job = Len(jobs')
          /\ jobs'[last'.job].status = "PENDING"
          /\ RequestSetOf(requests', last'.job) = {}
          /\ jobs'[last'.job].total_requests = 0
          /\ jobs'[last'.job].completed_requests = 0
          /\ jobs'[last'.job].failed_requests = 0
          /\ jobs'[last'.job].openai_batch_id = NoId
          /\ jobs'[last'.job].openai_input_file_id = NoId
          /\ jobs'[last'.job].openai_output_file_id = NoId
          /\ jobs'[last'.job].openai_error_file_id = NoId]_vars

C25_Witness ==
    /\ last.op = "create_job"
    /\ last.job = 2
    /\ jobs[2].status = "PENDING"
    /\ jobs[1].status = "COMPLETED"
    /\ responses # {}

\* the external-job linkage columns of a Job
LinkageFields ==
    {"openai_batch_id", "openai_input_file_id", "openai_output_file_id",
     "openai_error_file_id"}

\* C26: each linkage column of a Job (external job id, input, output and
\* error artifact id) goes from unset to set at most once: once set it keeps
\* its value, and it is set only by the step that takes the Job from PENDING
\* to PROCESSING.
C26_LinkageSetOnceAtSubmit ==
    [][\A j \in DOMAIN jobs : \A f \in LinkageFields :
          /\ jobs[j][f] # NoId => jobs'[j][f] = jobs[j][f]
          /\ (jobs[j][f] = NoId /\ jobs'[j][f] # NoId)
             => /\ jobs[j].status = "PENDING"
                /\ jobs'[j].status = "PROCESSING"]_vars

\* C27: the status of a Request changes only from PENDING to PROCESSING, in
\* the submit of its own Job, or from PROCESSING to COMPLETED or FAILED, in a
\* reconcile that creates its Response; and a Request is COMPLETED or FAILED
\* exactly when it has a Response.
C27_RequestLifecycle ==
    [][/\ \A i \in DOMAIN requests :
             requests'[i].status # requests[i].status
             => \/ /\ requests[i].status = "PENDING"
                   /\ requests'[i].status = "PROCESSING"
                   /\ last'.op = "submit"
                   /\ last'.job = requests[i].job_id
                \/ /\ requests[i].status = "PROCESSING"
                   /\ requests'[i].status \in {"COMPLETED", "FAILED"}
                   /\ last'.op = "check"
                   /\ ResponsesByRequest(responses, i) = {}
                   /\ ResponsesByRequest(responses', i) # {}
       /\ \A i \in DOMAIN requests' :
             requests'[i].status \in {"COMPLETED", "FAILED"}
             <=> ResponsesByRequest(responses', i) # {}]_vars

\* C28: no two Requests of one Job carry the same custom_id, after any
\* sequence of create_batch_requests calls.
C28_CustomIdUniqueWithinJob == \A j \in DOMAIN jobs : DistinctCustomIds(j)

\* C29: the manifest uploaded for a Job has one record per Request of the
\* Job, in the order of the Requests, each with the custom_id, method, url
\* and body of its Request.
C29_ManifestMatchesRequests ==
    [][(last'.op = "submit" /\ Len(files') = Len(files) + 1)
       => LET given == RequestsByJob(requests, last'.job)
              manifest == files'[Len(files')]
          IN  /\ Len(manifest) = Len(given)
              /\ \A k \in DOMAIN given :
                    /\ manifest[k].custom_id = requests[given[k]].custom_id
                    /\ manifest[k].method = requests[given[k]].method
                    /\ manifest[k].url = requests[given[k]].url
                    /\ manifest[k].body = requests[given[k]].body]_vars

\* a manifest of two records that differ was uploaded
C29_Witness ==
    /\ last.op = "submit"
    /\ last.ret = TRUE
    /\ files # <<>>
    /\ Len(files[Len(files)]) = 2
    /\ files[Len(files)][1].body # files[Len(files)][2].body
    /\ files[Len(files)][1].method # files[Len(files)][2].method
    /\ files[Len(files)][1].custom_id = files[Len(files)][2].custom_id

\* call c read the Job PROCESSING and the provider told it completed
SawCompleted(c) ==
    /\ calls[c].row.status = "PROCESSING"
    /\ calls[c].answer = "completed"

\* the step is the end of call c, after a call d for the same Job ended, both
\* having read the Job before either ended
SecondEnd(c, d) ==
    /\ c # d
    /\ calls[c].pc = "retrieved"
    /\ calls'[c].pc = "done"
    /\ calls[d].pc = "done"
    /\ calls[d].job = calls[c].job
    /\ SawCompleted(c)
    /\ SawCompleted(d)

Accounted(cy) == cy.attempted \cup cy.skipped

\* a step of the loop of a phase
LoopStep ==
    /\ cycle.pc \in {"pending", "processing"}
    /\ cycle'.pc = cycle.pc
    /\ cycle' # cycle

\* C31: the counters a run returns account for every fetched Job exactly once
\* (each step of a loop adds to submitted + errors, or to checked + errors,
\* the number of Jobs it accounts for), and a reconcile whose completed or
\* failed handling rolled back is counted as an error, not as checked.
C31_CountersAccountOnce ==
    [][LoopStep =>
          /\ (cycle'.done + cycle'.errors) - (cycle.done + cycle.errors)
                = Cardinality(Accounted(cycle') \ Accounted(cycle))
          /\ (last'.op = "check" /\ cycle'.expired)
                => /\ cycle'.done = cycle.done
                   /\ cycle'.errors = cycle.errors + 1]_vars

\* C32: a Job's completed_requests, failed_requests and total_requests never
\* decrease from one committed state to the next, over add-requests, submit
\* and reconcile operations, a repeated reconcile that recounts the stored
\* Responses included.
C32_CountersNeverDecrease ==
    [][\A j \in DOMAIN jobs :
          /\ jobs'[j].completed_requests >= jobs[j].completed_requests
          /\ jobs'[j].failed_requests >= jobs[j].failed_requests
          /\ jobs'[j].total_requests >= jobs[j].total_requests]_vars

\* a second reconcile found no artifact and recounted the stored Responses
C32_Witness ==
    /\ polls = 2
    /\ Len(batches) = 1
    /\ last.op = "check"
    /\ last.status = "completed"
    /\ last.out = NoFile
    /\ last.err = NoFile
    /\ jobs[last.job].status = "COMPLETED"
    /\ jobs[last.job].completed_requests = 1
    /\ jobs[last.job].failed_requests = 1
    /\ jobs[last.job].total_requests = 2

\* C33: when one Request cannot be serialized while the manifest is built the
\* build fails as a whole: nothing is uploaded, no remote job is created,
\* submit_batch_job returns failure and the Job and all its Requests stay
\* PENDING.
C33_UnwritableRecordFailsFast ==
    [][(last'.op = "submit" /\ last'.fail = "serialize")
       => /\ last'.ret = FALSE
          /\ files' = files
          /\ batches' = batches
          /\ jobs'[last'.job].status = "PENDING"
          /\ jobs'[last'.job].openai_input_file_id = NoId
          /\ \A i \in RequestSetOf(requests', last'.job) :
                requests'[i].status = "PENDING"]_vars

\* a submit of a Job of two Requests met a record it could not write
C33_Witness ==
    /\ last.op = "submit"
    /\ last.fail = "serialize"
    /\ ~last.ret
    /\ Cardinality(RequestSetOf(requests, last.job)) = 2
    /\ jobs[last.job].status = "PENDING"
    /\ files = <<>>

\* C34: check_batch_status on a Job that does not exist or has no external
\* job id returns failure, reads no answer of the provider (no get-status
\* call is issued) and changes nothing in the store.
C34_NoBatchNoCall ==
    [][(/\ last'.op = "check"
        /\ polls' = polls + 1
        /\ \/ ~JobExists(jobs, last'.job)
           \/ jobs[last'.job].openai_batch_id = NoId)
       => /\ last'.ret = FALSE
          /\ last'.status = "none"
          /\ UNCHANGED <<jobs, requests, responses, files, batches>>]_vars

\* a PENDING Job with Requests and no external job id was checked
C34_Witness ==
    /\ last.op = "check"
    /\ ~last.ret
    /\ last.status = "none"
    /\ JobExists(jobs, last.job)
    /\ jobs[last.job].openai_batch_id = NoId
    /\ RequestSetOf(requests, last.job) # {}

\* the remote job that a step creates
CreatedNow == batches'[Len(batches')]

\* the step commits the status flip of a submit: a Job leaves PENDING
FlipsNow(j) ==
    /\ jobs[j].status = "PENDING"
    /\ jobs'[j].status = "PROCESSING"

\* C35: every execution of submit_batch_job goes through load, manifest
\* build and upload, create remote job, commit of the status flip, in that
\* order: the create-job call names an artifact id that an upload of the
\* same call returned, for the manifest of the Requests it loaded, and the
\* flip is committed with an external job id that a create-job call for this
\* Job and this artifact returned.
C35_SubmitStepsInOrder ==
    [][/\ (Len(batches') > Len(batches))
            => \E c \in CallIds :
                  /\ calls[c].pc = "uploaded"
                  /\ calls'[c].pc = "created"
                  /\ calls[c].reqs # <<>>
                  /\ calls[c].file \in 1..Len(files)
                  /\ CreatedNow.input_file_id = calls[c].file
                  /\ CreatedNow.job_id = calls[c].job
                  /\ Len(files[calls[c].file]) = Len(calls[c].reqs)
       /\ \A j \in DOMAIN jobs :
             FlipsNow(j)
                => /\ batches' = batches
                   /\ jobs'[j].openai_batch_id \in 1..Len(batches)
                   /\ batches[jobs'[j].openai_batch_id].job_id = j
                   /\ batches[jobs'[j].openai_batch_id].input_file_id
                         = jobs'[j].openai_input_file_id
                   /\ jobs'[j].openai_input_file_id \in 1..Len(files)]_vars

\* a call went through its four steps and committed the flip of a Job of two
\* Requests
C35_Witness ==
    \E c \in CallIds :
        /\ calls[c].pc = "done"
        /\ calls[c].ret
        /\ Len(calls[c].reqs) = 2
        /\ calls[c].file \in 1..Len(files)
        /\ calls[c].batch \in 1..Len(batches)
        /\ jobs[calls[c].job].status = "PROCESSING"
        /\ jobs[calls[c].job].openai_batch_id = calls[c].batch

\* C36: with dry_run set, BatchProcessor.run issues no remote call and changes
\* nothing in the store: every Job, Request and Response, and the provider's
\* files and jobs, are after each step of the run what they were before it.
C36_DryRunChangesNothing ==
    [][(last'.op = "dry_run" \/ cycle.dry \/ cycle'.dry)
          => UNCHANGED <<jobs, requests, responses, files, batches, polls>>]_vars

\* a dry run ended with a PENDING Job that has Requests and a PROCESSING Job
\* in the store
C36_Witness ==
    /\ last.op = "dry_run"
    /\ cycle.pc = "idle"
    /\ \E j \in DOMAIN jobs :
          /\ jobs[j].status = "PENDING"
          /\ RequestSetOf(requests, j) # {}
    /\ \E j \in DOMAIN jobs : jobs[j].status = "PROCESSING"

\* C37: in every committed store state a Job's total_requests is the number
\* of Requests it owns, after any create_batch_requests calls on it, two
\* calls that interleave between their count and their commit included.
C37_TotalIsOwned ==
    \A j \in DOMAIN jobs :
        jobs[j].total_requests = Cardinality(RequestSetOf(requests, j))

\* C38: when the driver is run again and again and the provider and the
\* store succeed, every PENDING Job that has a Request is eventually moved to
\* PROCESSING, whatever other PENDING Jobs there are, newer PENDING Jobs
\* without Requests that fill the page of the listing included.
C38_PendingJobSubmitted ==
    \A j \in JobIds :
        (/\ JobExists(jobs, j)
         /\ jobs[j].status = "PENDING"
         /\ RequestSetOf(requests, j) # {})
        ~> (JobExists(jobs, j) /\ jobs[j].status = "PROCESSING")

\* the terminal status of a Job that matches the end of its remote job
Matching(status) ==
    IF status = "completed" THEN "COMPLETED"
    ELSE IF status = "failed" THEN "FAILED"
    ELSE "CANCELLED"

\* the remote job of a submitted Job
RemoteOf(j) == batches[jobs[j].openai_batch_id]

\* C39: when the driver is run again and again and the provider and the
\* store succeed, every PROCESSING Job whose remote job has ended as
\* completed, failed or cancelled eventually takes the matching status
\* COMPLETED, FAILED or CANCELLED, whatever its artifacts hold and however
\* many other PROCESSING Jobs there are.
C39_EndedJobReconciled ==
    \A j \in JobIds :
        \A s \in {"completed", "failed", "cancelled"} :
            (/\ HasBatch(jobs, j)
             /\ jobs[j].status = "PROCESSING"
             /\ RemoteOf(j).status = s)
            ~> (JobExists(jobs, j) /\ jobs[j].status = Matching(s))

\* C40: in every committed store state a Job is PENDING exactly when it has
\* no external job id: a Job that is not PENDING has its external job id, its
\* input artifact id and submitted_at set, and no Job with an external job id
\* is PENDING, whatever operation wrote the Job, the job-update operation
\* included.
C40_PendingIffNoLinkage ==
    \A j \in DOMAIN jobs :
        /\ (jobs[j].status = "PENDING") <=> (jobs[j].openai_batch_id = NoId)
        /\ jobs[j].status # "PENDING"
              => /\ jobs[j].openai_input_file_id # NoId
                 /\ jobs[j].submitted_at
====
